---- MODULE Spec2Model ----
(***************************************************************************)
(* TheGeetaWay: the retrieval pipeline (embeddings/query_faiss.py) and the  *)
(* guidance stage (reasoning/llm_reasoning.py).                             *)
(*                                                                          *)
(* Texts.  The code only ever asks of a text whether a keyword occurs in    *)
(* its lowercased form (`kw in text.lower()`).  A text is therefore the set *)
(* of phrases written in it; lower() maps each phrase to its lowercase      *)
(* form and `in` is the substring test between phrases (SubPhrases).        *)
(*                                                                          *)
(* Scores.  A float score is an integer number of 1/One; the raw scores     *)
(* drawn are whole hundredths, so every product with 0.75, 0.80, 1.2, 0.7,  *)
(* 1.1 and 0.8 the code forms is exact.                                     *)
(*                                                                          *)
(* Objects.  search_gita builds one dict per hit and every later stage      *)
(* writes its fields onto that same dict; lists hold references.  heap is   *)
(* the store of the dicts of the current request (object id = position)    *)
(* and every list is a sequence of object ids.  The fields sanskrit and     *)
(* themes are copied verbatim from the corpus record and never read by a    *)
(* decision; they are determined by (chapter, verse) and left out.          *)
(***************************************************************************)
EXTENDS Integers, Sequences, FiniteSets, TLC

VARIABLES
    metadata,          \* _metadata: the loaded corpus records
    pc,                \* "idle" | "admitted" | "rejected" | "searched" |
                       \* "failed" | "unavailable" | "reasoned" | "responded"
    query,             \* the request's raw question
    top_k,             \* fetch width passed to search_gita
    filter_practical,  \* flag passed to search_gita
    hits,              \* what index.search returned: sequence of [idx, score]
    heap,              \* the candidate dicts of this request, by object id
    built,             \* search_gita: `results` after the build loop (ids)
    filtered,          \* search_gita: the list filter_context_specific_verses returned
    results,           \* the list search_gita returned (ids)
    raised,            \* exception that left search_gita ("none" when it returned)
    top_verses,        \* reason_over_verses: verses put into the prompt (ids)
    generator_calls,   \* calls of client.chat.completions.create for this request
    generator_error,   \* text of the exception that call raised ({} when none)
    guidance,          \* what reason_over_verses returned
    enhanced_query,    \* the string search_gita hands to the encoder
    include_guidance,  \* api.py: the request's flag, drawn where line 262 reads it
    response,          \* api.py: what the search endpoint answered
    stages,            \* the stages this request has gone through, in order
    API_KEY,           \* api.py 42: the configured key ("" when not set)
    api_key,           \* api.py 53: the request's X-API-Key header, << >> when
                       \* the request has none (None), else <<its text>>
    _model,            \* query_faiss.py 29-31: the module globals
    _index,
    _metadata,
    index_file,        \* the file at INDEX_PATH: 0 when missing, else its build
    meta_file,         \* the file at META_PATH: 0 when missing, else its build
    builds,            \* builds of the store made so far
    load_pc,           \* per thread: the line of load_resources it stands at
    load_ret,          \* per thread: what its call returned
    load_err,          \* per thread: what its call raised
    files_at_call,     \* per thread: both files existed when its call began
    model_loads,       \* times line 39 ran
    index_loads,       \* times line 45 ran
    metadata_loads     \* times lines 51-52 ran

loadVars == <<_model, _index, _metadata, index_file, meta_file, builds,
              load_pc, load_ret, load_err, files_at_call, model_loads,
              index_loads, metadata_loads>>

requestVars == <<pc, query, top_k, filter_practical, hits, heap, built,
                 filtered, results, raised, top_verses, generator_calls,
                 generator_error, guidance, enhanced_query, include_guidance,
                 response, stages, API_KEY, api_key>>

vars == <<metadata, requestVars, loadVars>>

-----------------------------------------------------------------------------
(* Bounds of the model *)

MaxCorpus == 7
MaxTopK == 7
NumThreads == 2
MaxBuilds == 2

(* Program constants *)

MaxResults == 5

One == 10 * 1000 * 1000
Hundredth == One \div 100

\* stand-in for the -FLT_MAX distance the flat inner-product index reports
\* for a missing neighbour (label -1): below every real inner product
FloatLowest == 0 - (2 * One)

Mul(x, num, den) == (x * num) \div den

-----------------------------------------------------------------------------
(* Texts *)

\* kw is a proper substring of phrase
SubPhrases ==
    { <<"war", "warrior">>, <<"battle", "battlefield">>,
      <<"dissolution", "creation and dissolution">>,
      <<"one who", "one whose">>, <<"purpose", "purpose of">>,
      <<"death", "death is certain">>, <<"respect", "respect for you">>,
      <<"api_key", "invalid_api_key">> }

LowerPhrase(p) ==
    CASE p = "Why" -> "why"
      [] p = "Battlefield" -> "battlefield"
      [] p = "Died" -> "died"
      [] p = "Invalid API Key" -> "invalid api key"
      [] p = "Error code: 401" -> "error code: 401"
      [] p = "Connection error." -> "connection error."
      [] OTHER -> p

lower(text) == { LowerPhrase(p) : p \in text }

\* Python `kw in text` on strings
In(kw, text) == \E p \in text : kw = p \/ <<kw, p>> \in SubPhrases

AnyIn(kws, text) == \E kw \in kws : In(kw, text)

-----------------------------------------------------------------------------
(* embeddings/query_faiss.py *)

EmotionalWords ==
    {"afraid", "fear", "anxious", "worried", "stressed", "overwhelmed",
     "panic", "nervous", "scared"}
DecisionWords ==
    {"should i", "confused", "don't know", "uncertain", "choice", "decide",
     "which", "whether"}
RelationshipWords ==
    {"family", "friend", "colleague", "relationship", "conflict", "argument",
     "partner", "spouse", "parent"}
CareerWords ==
    {"career", "job", "work", "future", "path", "purpose", "goal",
     "profession", "business"}
ExistentialWords ==
    {"meaning", "why", "life", "death", "purpose of", "exist", "point of"}

categorize_problem(q) ==
    LET query_lower == lower(q)
    IN  [emotional    |-> AnyIn(EmotionalWords, query_lower),
         decision     |-> AnyIn(DecisionWords, query_lower),
         relationship |-> AnyIn(RelationshipWords, query_lower),
         career       |-> AnyIn(CareerWords, query_lower),
         existential  |-> AnyIn(ExistentialWords, query_lower)]

\* ', '.join(contexts), as the pieces of the string
RECURSIVE Join(_, _)
Join(contexts, sep) ==
    IF Len(contexts) <= 1 THEN contexts
    ELSE <<Head(contexts), sep>> \o Join(Tail(contexts), sep)

\* mutant: the focus phrases follow the order of the problem_type dict
enhance_query_contextual_DictOrder(q) ==
    LET problem_type == categorize_problem(q)
        contexts ==
            (IF problem_type.emotional
             THEN <<"managing fear and anxiety">> ELSE << >>)
            \o (IF problem_type.decision
                THEN <<"making clear decisions">> ELSE << >>)
            \o (IF problem_type.relationship
                THEN <<"handling interpersonal challenges">> ELSE << >>)
            \o (IF problem_type.career
                THEN <<"finding purpose and direction">> ELSE << >>)
            \o (IF problem_type.existential
                THEN <<"understanding life's meaning">> ELSE << >>)
    IN  [base |-> "Practical life guidance: ", query |-> q,
         focus |-> IF contexts # << >>
                   THEN <<". Focus on: ">> \o Join(contexts, ", ")
                   ELSE << >>]

\* lines 111-133: the returned string as its pieces: the fixed prefix, the
\* raw query, and what line 131 appends
enhance_query_contextual(q) ==
    LET problem_type == categorize_problem(q)
        contexts ==
            (IF problem_type.emotional
             THEN <<"managing fear and anxiety">> ELSE << >>)
            \o (IF problem_type.decision
                THEN <<"making clear decisions">> ELSE << >>)
            \o (IF problem_type.career
                THEN <<"finding purpose and direction">> ELSE << >>)
            \o (IF problem_type.relationship
                THEN <<"handling interpersonal challenges">> ELSE << >>)
            \o (IF problem_type.existential
                THEN <<"understanding life's meaning">> ELSE << >>)
    IN  [base |-> "Practical life guidance: ", query |-> q,
         focus |-> IF contexts # << >>
                   THEN <<". Focus on: ">> \o Join(contexts, ", ")
                   ELSE << >>]

SocialConcernWords ==
    {"reputation", "respect", "judged", "what people think", "embarrassed",
     "ashamed", "honor", "image"}
ConfrontationWords ==
    {"confront", "face", "stand up", "challenge", "difficult situation"}
BattlefieldWords ==
    {"battlefield", "warrior", "general", "war", "combat", "army", "weapon",
     "fight", "battle"}
DeathFocusedPhrases ==
    {"death is certain", "rebirth is inevitable", "born and die", "dissolution"}

\* Python list.sort(key=..., reverse=True): stable, descending.  ids is a
\* sequence of object ids, key a function from ids to numbers.
\* mutant: an unstable sort, equal keys change places
RECURSIVE InsertDesc_Unstable(_, _, _)
InsertDesc_Unstable(sorted, x, key) ==
    IF sorted = << >> THEN <<x>>
    ELSE IF key[Head(sorted)] > key[x]
         THEN <<Head(sorted)>> \o InsertDesc_Unstable(Tail(sorted), x, key)
         ELSE <<x>> \o sorted

RECURSIVE InsertDesc(_, _, _)
InsertDesc(sorted, x, key) ==
    IF sorted = << >> THEN <<x>>
    ELSE IF key[Head(sorted)] >= key[x]
         THEN <<Head(sorted)>> \o InsertDesc(Tail(sorted), x, key)
         ELSE <<x>> \o sorted

RECURSIVE SortDesc(_, _)
SortDesc(ids, key) ==
    IF ids = << >> THEN << >>
    ELSE InsertDesc(SortDesc(SubSeq(ids, 1, Len(ids) - 1), key),
                    ids[Len(ids)], key)

\* mutant: `if` in place of `elif`, the death penalty is applied on top of
\* the battlefield penalty
AdjustVerse_BothPenalties(verse, is_social_concern, is_confrontation, user_problem) ==
    LET text_lower == lower(verse.english)
        is_battlefield == AnyIn({"battlefield", "warrior", "general", "war",
                                 "combat", "army", "weapon", "fight", "battle"},
                                text_lower)
        is_death_focused == AnyIn({"death is certain", "rebirth is inevitable",
                                   "born and die", "dissolution"}, text_lower)
        existential == AnyIn({"meaning", "why", "life", "death", "purpose of",
                              "exist", "point of"}, lower(user_problem))
        s1 == IF is_battlefield /\ ~(is_social_concern \/ is_confrontation)
              THEN (verse.score * 75) \div 100 ELSE verse.score
        s2 == IF is_death_focused /\ ~existential
              THEN (s1 * 80) \div 100 ELSE s1
    IN  [context_warning |->
            IF is_death_focused /\ ~existential THEN "death_rebirth"
            ELSE IF is_battlefield /\ ~(is_social_concern \/ is_confrontation)
                 THEN "battlefield" ELSE "none",
         relevance_adjusted |-> s2] @@ verse

\* lines 154-177: the verse dict after the two writes of the branch taken
\* mutant: the lowered score replaces the raw score
AdjustVerse_OverwritesScore(verse, is_social_concern, is_confrontation, user_problem) ==
    LET text_lower == lower(verse.english)
        is_battlefield == AnyIn(BattlefieldWords, text_lower)
        is_death_focused == AnyIn(DeathFocusedPhrases, text_lower)
    IN  IF is_battlefield /\ ~(is_social_concern \/ is_confrontation)
        THEN [context_warning |-> "battlefield",
              relevance_adjusted |-> Mul(verse.score, 75, 100),
              score |-> Mul(verse.score, 75, 100)] @@ verse
        ELSE IF is_death_focused /\ ~categorize_problem(user_problem).existential
        THEN [context_warning |-> "death_rebirth",
              relevance_adjusted |-> Mul(verse.score, 80, 100),
              score |-> Mul(verse.score, 80, 100)] @@ verse
        ELSE [context_warning |-> "none",
              relevance_adjusted |-> verse.score] @@ verse

AdjustVerse(verse, is_social_concern, is_confrontation, user_problem) ==
    LET text_lower == lower(verse.english)
        is_battlefield == AnyIn(BattlefieldWords, text_lower)
        is_death_focused == AnyIn(DeathFocusedPhrases, text_lower)
    IN  IF is_battlefield /\ ~(is_social_concern \/ is_confrontation)
        THEN [context_warning |-> "battlefield",
              relevance_adjusted |-> Mul(verse.score, 75, 100)] @@ verse
        ELSE IF is_death_focused /\ ~categorize_problem(user_problem).existential
        THEN [context_warning |-> "death_rebirth",
              relevance_adjusted |-> Mul(verse.score, 80, 100)] @@ verse
        ELSE [context_warning |-> "none",
              relevance_adjusted |-> verse.score] @@ verse

\* mutant: candidates that get a warning are left out of the list
filter_context_specific_verses_DropsWarned(h, ids, user_problem) ==
    LET query_lower == lower(user_problem)
        is_social_concern == AnyIn(SocialConcernWords, query_lower)
        is_confrontation == AnyIn(ConfrontationWords, query_lower)
        touched == { ids[i] : i \in 1..Len(ids) }
        h2 == [o \in DOMAIN h |->
                 IF o \in touched
                 THEN AdjustVerse(h[o], is_social_concern, is_confrontation,
                                  user_problem)
                 ELSE h[o]]
        key == [o \in DOMAIN h |->
                  IF o \in touched THEN h2[o].relevance_adjusted ELSE 0]
    IN  [heap |-> h2,
         list |-> SortDesc(SelectSeq(ids, LAMBDA o :
                                       h2[o].context_warning = "none"), key)]

\* returns the heap after the in-place writes and the sorted list
filter_context_specific_verses(h, ids, user_problem) ==
    LET query_lower == lower(user_problem)
        is_social_concern == AnyIn(SocialConcernWords, query_lower)
        is_confrontation == AnyIn(ConfrontationWords, query_lower)
        touched == { ids[i] : i \in 1..Len(ids) }
        h2 == [o \in DOMAIN h |->
                 IF o \in touched
                 THEN AdjustVerse(h[o], is_social_concern, is_confrontation,
                                  user_problem)
                 ELSE h[o]]
        key == [o \in DOMAIN h |->
                  IF o \in touched THEN h2[o].relevance_adjusted ELSE 0]
    IN  [heap |-> h2, list |-> SortDesc(ids, key)]

\* Python list indexing lst[idx]: a negative idx counts from the end
InRange(lst, idx) == idx >= 0 - Len(lst) /\ idx < Len(lst)
PyIndex(lst, idx) == IF idx >= 0 THEN lst[idx + 1] ELSE lst[Len(lst) + idx + 1]

\* line 223: the hit passes the safety check and reaches metadata[idx]
KeepsHit(hit, md) == ~(hit.idx >= Len(md))

\* lines 226-235: the dict built for one hit
BuildVerse(hit, md) ==
    LET verse == PyIndex(md, hit.idx)
    IN  [score |-> hit.score, chapter |-> verse.chapter, verse |-> verse.verse,
         english |-> verse.english, is_practical |-> verse.is_practical]

\* mutant: the candidate is the corpus record itself (results.append(verse)),
\* so what the stages write is found on the record
RecordAfterRequest_Aliased(record, h) ==
    IF \E o \in DOMAIN h : h[o].chapter = record.chapter
                            /\ h[o].verse = record.verse
    THEN h[CHOOSE o \in DOMAIN h : h[o].chapter = record.chapter
                                   /\ h[o].verse = record.verse]
    ELSE record

\* a corpus record after a request whose candidate dicts are h: line 226
\* reads the record and lines 227-235 copy its fields into a new dict, which
\* is where lines 169-177 and llm_reasoning.py 137-138 write
RecordAfterRequest(record, h) == record

CorpusAfterRequest(md, h) ==
    [i \in 1..Len(md) |-> RecordAfterRequest(md[i], h)]

\* lines 221-235: the hits that pass the safety check, in order
RECURSIVE KeptHits(_, _)
KeptHits(hs, md) ==
    IF hs = << >> THEN << >>
    ELSE (IF KeepsHit(Head(hs), md) THEN <<Head(hs)>> ELSE << >>)
         \o KeptHits(Tail(hs), md)

\* line 226 raises IndexError for some kept hit
BuildRaises(hs, md) ==
    \E i \in 1..Len(KeptHits(hs, md)) : ~InRange(md, KeptHits(hs, md)[i].idx)

BuildHeap(hs, md) ==
    LET kept == KeptHits(hs, md)
    IN  [o \in 1..Len(kept) |-> BuildVerse(kept[o], md)]

\* mutant: the warning is not looked at
IsIdeal_IgnoresWarning(r) == r.is_practical

\* line 245: r['is_practical'] and not r.get('context_warning')
IsIdeal(r) ==
    r.is_practical
    /\ (("context_warning" \notin DOMAIN r) \/ r.context_warning = "none")

\* line 254: r not in ideal_verses (dict equality, by value)
NotInList(h, r, ids) == \A i \in 1..Len(ids) : h[ids[i]] # h[r]

Take(ids, n) == SubSeq(ids, 1, IF Len(ids) < n THEN Len(ids) ELSE n)

\* mutant: line 256 (results = results[:5]) is missing
SelectVerses_NoCap(h, ids, fp) ==
    IF fp
    THEN LET ideal_verses ==
                 SelectSeq(ids, LAMBDA r : h[r].is_practical
                                           /\ h[r].context_warning = "none")
         IN  IF Len(ideal_verses) >= 5
             THEN SubSeq(ideal_verses, 1, 5)
             ELSE ideal_verses
                  \o SelectSeq(ids, LAMBDA r : \A i \in 1..Len(ideal_verses) :
                                                  h[ideal_verses[i]] # h[r])
    ELSE SubSeq(ids, 1, IF Len(ids) < 5 THEN Len(ids) ELSE 5)

\* mutant: the ideal verses are not put first when fewer than 5 are ideal
SelectVerses_NoIdealFirst(h, ids, fp) ==
    IF fp
    THEN LET ideal_verses ==
                 SelectSeq(ids, LAMBDA r : h[r].is_practical
                                           /\ h[r].context_warning = "none")
         IN  IF Len(ideal_verses) >= 5
             THEN SubSeq(ideal_verses, 1, 5)
             ELSE SubSeq(ids, 1, IF Len(ids) < 5 THEN Len(ids) ELSE 5)
    ELSE SubSeq(ids, 1, IF Len(ids) < 5 THEN Len(ids) ELSE 5)

\* mutant: the practical filter is applied whatever the flag says
SelectVerses_AlwaysFilters(h, ids, fp) ==
    LET ideal_verses == SelectSeq(ids, LAMBDA r : IsIdeal(h[r]))
    IN  IF Len(ideal_verses) >= 5
        THEN Take(ideal_verses, 5)
        ELSE Take(ideal_verses
                  \o SelectSeq(ids, LAMBDA r : NotInList(h, r, ideal_verses)),
                  5)

\* lines 240-258: the list chosen before the final sort
SelectVerses(h, ids, fp) ==
    IF fp
    THEN LET ideal_verses == SelectSeq(ids, LAMBDA r : IsIdeal(h[r]))
         IN  IF Len(ideal_verses) >= MaxResults
             THEN Take(ideal_verses, MaxResults)
             ELSE Take(ideal_verses
                       \o SelectSeq(ids, LAMBDA r : NotInList(h, r, ideal_verses)),
                       MaxResults)
    ELSE Take(ids, MaxResults)

\* line 261: key x.get('relevance_adjusted', x['score'])
AdjustedOf(r) ==
    IF "relevance_adjusted" \in DOMAIN r THEN r.relevance_adjusted ELSE r.score

\* mutant: the final sort is missing
FinalSort_Missing(h, ids) == ids

FinalSort(h, ids) == SortDesc(ids, [o \in DOMAIN h |-> AdjustedOf(h[o])])

\* lines 217-263, given what index.search returned; when the build loop
\* raises, nothing is returned
search_gita(q, hs, md, fp) ==
    IF BuildRaises(hs, md)
    THEN [raised |-> "IndexError", heap |-> << >>, built |-> << >>,
          filtered |-> << >>, results |-> << >>]
    ELSE LET h0 == BuildHeap(hs, md)
             ids0 == [o \in 1..Len(h0) |-> o]
             f == filter_context_specific_verses(h0, ids0, q)
         IN  [raised |-> "none", heap |-> f.heap, built |-> ids0,
              filtered |-> f.list,
              results |-> FinalSort(f.heap, SelectVerses(f.heap, f.list, fp))]

-----------------------------------------------------------------------------
(* reasoning/llm_reasoning.py *)

BattlefieldKeywords ==
    {"battlefield", "warrior", "general", "army", "combat", "fight", "weapon",
     "arjun", "fled", "respect for you"}
DeathKeywords ==
    {"death is certain", "rebirth is inevitable", "born and die",
     "imperishable", "unborn", "eternal soul"}
DevotionalKeywords ==
    {"surrender unto me", "devotees", "divine love", "worship",
     "absorbed in me", "refuge in me"}
CosmicKeywords ==
    {"cosmic form", "universes", "divine form", "celestial",
     "creation and dissolution", "brahma"}
UniversalKeywords ==
    {"one who", "one whose", "therefore", "thus", "should", "must", "control",
     "practice", "perform", "abandon"}

\* mutant: is_universal starts False and the keywords decide it
detect_verse_context_DefaultFalse(verse_text) ==
    LET text_lower == lower(verse_text)
    IN  [is_battlefield   |-> AnyIn(BattlefieldKeywords, text_lower),
         is_death_focused |-> AnyIn(DeathKeywords, text_lower),
         is_devotional    |-> AnyIn(DevotionalKeywords, text_lower),
         is_cosmic        |-> AnyIn(CosmicKeywords, text_lower),
         is_universal     |-> AnyIn(UniversalKeywords, text_lower)]

detect_verse_context(verse_text) ==
    LET text_lower == lower(verse_text)
    IN  [is_battlefield   |-> AnyIn(BattlefieldKeywords, text_lower),
         is_death_focused |-> AnyIn(DeathKeywords, text_lower),
         is_devotional    |-> AnyIn(DevotionalKeywords, text_lower),
         is_cosmic        |-> AnyIn(CosmicKeywords, text_lower),
         \* initialised True (line 25) and only ever set to True (line 62)
         is_universal     |-> IF AnyIn(UniversalKeywords, text_lower)
                              THEN TRUE ELSE TRUE]

GriefWords ==
    {"died", "death", "lost someone", "grief", "mourning", "passed away"}
ConfrontationQueryWords ==
    {"confront", "face", "stand up", "courage", "brave", "difficult situation"}

\* mutant: the battlefield factor is applied to the adjusted score, which
\* loses the death factor
SuitVerse_NotCumulative(verse, is_grief_query, is_confrontation_query) ==
    LET context == detect_verse_context(verse.english)
        s0 == AdjustedOf(verse)
        s1 == IF context.is_death_focused /\ is_grief_query
              THEN Mul(s0, 12, 10)
              ELSE IF context.is_death_focused /\ ~is_grief_query
                   THEN Mul(s0, 7, 10) ELSE s0
        s2 == IF context.is_battlefield /\ is_confrontation_query
              THEN Mul(s0, 11, 10)
              ELSE IF context.is_battlefield THEN Mul(s0, 8, 10) ELSE s1
        s3 == IF context.is_universal THEN Mul(s2, 11, 10) ELSE s2
    IN  [suitability_score |-> s3, context |-> context] @@ verse

\* lines 121-139: the verse dict after the two writes
SuitVerse(verse, is_grief_query, is_confrontation_query) ==
    LET context == detect_verse_context(verse.english)
        s0 == AdjustedOf(verse)
        s1 == IF context.is_death_focused /\ is_grief_query
              THEN Mul(s0, 12, 10)
              ELSE IF context.is_death_focused /\ ~is_grief_query
                   THEN Mul(s0, 7, 10) ELSE s0
        s2 == IF context.is_battlefield /\ is_confrontation_query
              THEN Mul(s1, 11, 10)
              ELSE IF context.is_battlefield THEN Mul(s1, 8, 10) ELSE s1
        s3 == IF context.is_universal THEN Mul(s2, 11, 10) ELSE s2
    IN  [suitability_score |-> s3, context |-> context] @@ verse

\* mutant: line 143 (the sort) is missing
rank_verses_by_suitability_Unsorted(h, ids, user_problem) ==
    LET problem_lower == lower(user_problem)
        is_grief_query == AnyIn(GriefWords, problem_lower)
        is_confrontation_query == AnyIn(ConfrontationQueryWords, problem_lower)
        touched == { ids[i] : i \in 1..Len(ids) }
        h2 == [o \in DOMAIN h |->
                 IF o \in touched
                 THEN SuitVerse(h[o], is_grief_query, is_confrontation_query)
                 ELSE h[o]]
    IN  [heap |-> h2, list |-> ids]

rank_verses_by_suitability(h, ids, user_problem) ==
    LET problem_lower == lower(user_problem)
        is_grief_query == AnyIn(GriefWords, problem_lower)
        is_confrontation_query == AnyIn(ConfrontationQueryWords, problem_lower)
        touched == { ids[i] : i \in 1..Len(ids) }
        h2 == [o \in DOMAIN h |->
                 IF o \in touched
                 THEN SuitVerse(h[o], is_grief_query, is_confrontation_query)
                 ELSE h[o]]
        key == [o \in DOMAIN h |->
                  IF o \in touched THEN h2[o].suitability_score ELSE 0]
    IN  [heap |-> h2, list |-> SortDesc(ids, key)]

\* line 165: v.get('score', 0) > 0.30
MinScore == Mul(One, 30, 100)
\* mutant: >= in place of >
PassesThreshold_Inclusive(v) ==
    (IF "score" \in DOMAIN v THEN v.score ELSE 0) >= Mul(10 * 1000 * 1000, 30, 100)

\* mutant: the gate tests the adjusted score
PassesThreshold_Adjusted(v) ==
    (IF "relevance_adjusted" \in DOMAIN v THEN v.relevance_adjusted ELSE 0)
        > Mul(10 * 1000 * 1000, 30, 100)

PassesThreshold(v) ==
    (IF "score" \in DOMAIN v THEN v.score ELSE 0) > MinScore

\* what client.chat.completions.create does: "ok" or the text of the
\* exception it raises
GeneratorOutcomes ==
    { {"ok"}, {"Error code: 401", "Invalid API Key", "invalid_api_key"},
      {"Connection error."} }

\* lines 287-316: the value returned once the generator was called.  The
\* except block returns only in its api_key branch; otherwise control falls
\* off the end of the function and the call returns None.
AfterGenerator(outcome) ==
    IF outcome = {"ok"} THEN "guidance_text"
    ELSE LET error_msg == outcome
         IN  IF In("api_key", lower(error_msg))
             THEN "api_key_fallback"
             ELSE "None"

\* lines 164-316
reason_over_verses(h, user_problem, retrieved_verses, outcome) ==
    LET good_verses == SelectSeq(retrieved_verses,
                                 LAMBDA v : PassesThreshold(h[v]))
    IN  IF good_verses = << >>
        THEN [heap |-> h, top_verses |-> << >>, calls |-> 0, error |-> {},
              returned |-> "low_confidence"]
        ELSE LET r == rank_verses_by_suitability(h, good_verses, user_problem)
             IN  [heap |-> r.heap, top_verses |-> Take(r.list, 3), calls |-> 1,
                  error |-> IF outcome = {"ok"} THEN {} ELSE outcome,
                  returned |-> AfterGenerator(outcome)]

-----------------------------------------------------------------------------
(* api.py *)

\* lines 184-197: the VerseResponse built from one candidate dict
format_verse_response(verse) ==
    [id |-> <<verse.chapter, verse.verse>>,
     chapter |-> verse.chapter, verse |-> verse.verse,
     english |-> verse.english, score |-> verse.score,
     is_practical |-> IF "is_practical" \in DOMAIN verse
                      THEN verse.is_practical ELSE FALSE,
     context_warning |-> IF "context_warning" \in DOMAIN verse
                         THEN verse.context_warning ELSE "none",
     relevance_adjusted |-> AdjustedOf(verse)]

\* line 259, on the dicts as they are before reason_over_verses runs
FormatVerses(h, res) == [i \in 1..Len(res) |-> format_verse_response(h[res[i]])]

\* line 99: GuidanceResponse declares guidance_text: str, which None fails
ValidGuidanceText(text) == text # "None"

\* lines 264-272
GuidanceResponse(h, res, text) ==
    [guidance_text |-> text,
     selected_verse |-> [chapter |-> h[res[1]].chapter,
                         verse |-> h[res[1]].verse,
                         english |-> h[res[1]].english]]

\* lines 259-284 for a non-empty result: verses are formatted first, then
\* the guidance (text is what reason_over_verses returned) is attached; the
\* validation error of GuidanceResponse ends the request with 500
SearchResponse(question, h, res, with_guidance, text) ==
    IF with_guidance /\ ~ValidGuidanceText(text)
    THEN [status |-> 500, verses |-> << >>, guidance |-> "None"]
    ELSE [status |-> 200, verses |-> FormatVerses(h, res),
          guidance |-> IF with_guidance
                       THEN GuidanceResponse(h, res, text) ELSE "None",
          enhanced_query |-> enhance_query_contextual(question)]

-----------------------------------------------------------------------------
(* Inputs *)

\* corpus records in corpus order (faiss_index/metadata.json); a corpus of
\* n records is the first n of them
SampleCorpus ==
    << [chapter |-> 1,  verse |-> 1,  is_practical |-> TRUE,
        english |-> {"Battlefield", "warrior"}],
       [chapter |-> 2,  verse |-> 3,  is_practical |-> TRUE,
        english |-> {"one who", "control"}],
       [chapter |-> 2,  verse |-> 27, is_practical |-> TRUE,
        english |-> {"death is certain", "rebirth is inevitable"}],
       [chapter |-> 2,  verse |-> 47, is_practical |-> TRUE,
        english |-> {"perform"}],
       [chapter |-> 3,  verse |-> 8,  is_practical |-> TRUE,
        english |-> {"should"}],
       [chapter |-> 8,  verse |-> 19, is_practical |-> FALSE,
        english |-> {"born and die", "dissolution", "fight"}],
       \* a text that matches no keyword set
       [chapter |-> 10, verse |-> 20, is_practical |-> TRUE,
        english |-> {"seated in the heart"}],
       [chapter |-> 11, verse |-> 5,  is_practical |-> FALSE,
        english |-> {"divine form", "celestial"}],
       [chapter |-> 18, verse |-> 66, is_practical |-> TRUE,
        english |-> {"surrender unto me", "abandon"}] >>

Corpora == { SubSeq(SampleCorpus, 1, n) : n \in 0..MaxCorpus }

SampleQueries ==
    { {"confused", "afraid", "future"},   \* "I feel confused and afraid about my future"
      {"job", "colleague"},               \* "How do I handle a colleague at my job?"
      {"reputation"},
      {"Died", "don't know"},             \* "My father died last week and I don't know how to cope"
      {"death", "courage"},
      {"face", "Why"} }

\* raw inner products in hundredths, best hit first
ScoreLadders ==
    { <<80, 60, 60, 55, 32, 30, 0, -20, -20>>,
      <<75, 60, 60, 60, 48, 40, 31, 30, 30>>,
      <<30, 30, 25, 20, 0, 0, -10, -10, -20>>,
      <<40, 32, 30, 30, 24, 20, 0, -10, -20>> }

Min(a, b) == IF a < b THEN a ELSE b

\* the m-element subsets of 0..(n-1), each as the ascending sequence
RECURSIVE AscSubsets(_, _)
AscSubsets(n, m) ==
    IF m = 0 THEN { << >> }
    ELSE IF n < m THEN {}
    ELSE AscSubsets(n - 1, m)
         \cup { Append(s, n - 1) : s \in AscSubsets(n - 1, m - 1) }

\* the orders in which the index may rank the records it returns, relative
\* to corpus order: the same, the reverse, neighbours swapped
Reverse(s) == [i \in 1..Len(s) |-> s[Len(s) + 1 - i]]
SwapPairs(s) ==
    [i \in 1..Len(s) |->
       IF i % 2 = 1 THEN (IF i < Len(s) THEN s[i + 1] ELSE s[i]) ELSE s[i - 1]]
HitOrders(s) == { s, Reverse(s), SwapPairs(s) }

\* index.search(query_embedding, k) on a flat index of n vectors: the
\* min(k, n) nearest records, distinct, best first, then label -1 with the
\* lowest float for the neighbours that do not exist
IndexSearch(n, k) ==
    LET m == Min(k, n)
    IN  { [i \in 1..k |->
             IF i <= m THEN [idx |-> f[i], score |-> ladder[i] * Hundredth]
             ELSE [idx |-> 0 - 1, score |-> FloatLowest]] :
          f \in UNION { HitOrders(s) : s \in AscSubsets(n, m) },
          ladder \in ScoreLadders }

-----------------------------------------------------------------------------
(* query_faiss.py 29-55: load_resources, one step per statement, run by
   the threads that serve requests.  A loaded object is named by the build
   of the file it was read from. *)

\* no request is running
RequestIdle ==
    /\ pc = "idle"
    /\ query = {}
    /\ top_k = 0
    /\ filter_practical = FALSE
    /\ hits = << >>
    /\ heap = << >>
    /\ built = << >>
    /\ filtered = << >>
    /\ results = << >>
    /\ raised = "none"
    /\ top_verses = << >>
    /\ generator_calls = 0
    /\ generator_error = {}
    /\ guidance = "not_requested"
    /\ enhanced_query = "none"
    /\ include_guidance = FALSE
    /\ response = "none"
    /\ stages = << >>
    /\ api_key = << >>

Threads == 1..NumThreads

None == [loaded |-> FALSE, build |-> 0]
Loaded(b) == [loaded |-> TRUE, build |-> b]

\* mutant: a file that was missing once is never seen again
exists_Never(file) == FALSE
\* os.path.exists
exists(file) == file # 0

NoReturn == [model |-> None, index |-> None, metadata |-> None]

\* the state StoreLoaded and ProcessStart share: no thread is in a call
NoCalls ==
    /\ load_pc = [t \in Threads |-> "idle"]
    /\ load_ret = [t \in Threads |-> NoReturn]
    /\ load_err = [t \in Threads |-> "none"]
    /\ files_at_call = [t \in Threads |-> FALSE]

StoreLoaded ==
    /\ _model = Loaded(1) /\ _index = Loaded(1) /\ _metadata = Loaded(1)
    /\ index_file = 1 /\ meta_file = 1 /\ builds = 1
    /\ model_loads = 1 /\ index_loads = 1 /\ metadata_loads = 1
    /\ NoCalls

\* lines 29-31, in a process started before the store was built
ProcessStart ==
    /\ _model = None /\ _index = None /\ _metadata = None
    /\ index_file = 0 /\ meta_file = 0 /\ builds = 0
    /\ model_loads = 0 /\ index_loads = 0 /\ metadata_loads = 0
    /\ NoCalls

InitLoad ==
    /\ metadata = << >>
    /\ RequestIdle
    /\ API_KEY = ""
    /\ ProcessStart

Goto(t, line) == load_pc' = [load_pc EXCEPT ![t] = line]

\* line 205 (api.py 202): a thread enters load_resources
Call(t) ==
    /\ load_pc[t] \in {"idle", "returned", "raised"}
    /\ Goto(t, "37")
    /\ load_ret' = [load_ret EXCEPT ![t] = NoReturn]
    /\ load_err' = [load_err EXCEPT ![t] = "none"]
    /\ files_at_call' = [files_at_call EXCEPT
                           ![t] = index_file # 0 /\ meta_file # 0]
    /\ UNCHANGED <<_model, _index, _metadata, index_file, meta_file, builds,
                   model_loads, index_loads, metadata_loads>>
    /\ UNCHANGED <<metadata, requestVars>>

\* line 37: if _model is None
CheckModel(t) ==
    /\ load_pc[t] = "37"
    /\ Goto(t, IF _model = None THEN "39" ELSE "41")
    /\ UNCHANGED <<_model, _index, _metadata, index_file, meta_file, builds,
                   load_ret, load_err, files_at_call, model_loads,
                   index_loads, metadata_loads>>
    /\ UNCHANGED <<metadata, requestVars>>

\* line 39
LoadModel(t) ==
    /\ load_pc[t] = "39"
    /\ _model' = Loaded(1)
    /\ model_loads' = model_loads + 1
    /\ Goto(t, "41")
    /\ UNCHANGED <<_index, _metadata, index_file, meta_file, builds, load_ret,
                   load_err, files_at_call, index_loads, metadata_loads>>
    /\ UNCHANGED <<metadata, requestVars>>

\* line 41: if _index is None
CheckIndex(t) ==
    /\ load_pc[t] = "41"
    /\ Goto(t, IF _index = None THEN "43" ELSE "47")
    /\ UNCHANGED <<_model, _index, _metadata, index_file, meta_file, builds,
                   load_ret, load_err, files_at_call, model_loads,
                   index_loads, metadata_loads>>
    /\ UNCHANGED <<metadata, requestVars>>

\* lines 43-44: the file is missing and the call raises, or the thread goes on
ExistsIndex(t) ==
    /\ load_pc[t] = "43"
    /\ IF exists(index_file)
       THEN Goto(t, "45") /\ UNCHANGED load_err
       ELSE /\ Goto(t, "raised")
            /\ load_err' = [load_err EXCEPT ![t] = "FAISS index not found"]
    /\ UNCHANGED <<_model, _index, _metadata, index_file, meta_file, builds,
                   load_ret, files_at_call, model_loads, index_loads,
                   metadata_loads>>
    /\ UNCHANGED <<metadata, requestVars>>

\* line 45: _index = faiss.read_index(INDEX_PATH)
ReadIndex(t) ==
    /\ load_pc[t] = "45"
    /\ _index' = Loaded(index_file)
    /\ index_loads' = index_loads + 1
    /\ Goto(t, "47")
    /\ UNCHANGED <<_model, _metadata, index_file, meta_file, builds, load_ret,
                   load_err, files_at_call, model_loads, metadata_loads>>
    /\ UNCHANGED <<metadata, requestVars>>

\* line 47: if _metadata is None
CheckMetadata(t) ==
    /\ load_pc[t] = "47"
    /\ Goto(t, IF _metadata = None THEN "49" ELSE "55")
    /\ UNCHANGED <<_model, _index, _metadata, index_file, meta_file, builds,
                   load_ret, load_err, files_at_call, model_loads,
                   index_loads, metadata_loads>>
    /\ UNCHANGED <<metadata, requestVars>>

\* lines 49-50
ExistsMetadata(t) ==
    /\ load_pc[t] = "49"
    /\ IF exists(meta_file)
       THEN Goto(t, "51") /\ UNCHANGED load_err
       ELSE /\ Goto(t, "raised")
            /\ load_err' = [load_err EXCEPT ![t] = "Metadata not found"]
    /\ UNCHANGED <<_model, _index, _metadata, index_file, meta_file, builds,
                   load_ret, files_at_call, model_loads, index_loads,
                   metadata_loads>>
    /\ UNCHANGED <<metadata, requestVars>>

\* lines 51-52: _metadata = json.load(f)
ReadMetadata(t) ==
    /\ load_pc[t] = "51"
    /\ _metadata' = Loaded(meta_file)
    /\ metadata_loads' = metadata_loads + 1
    /\ Goto(t, "55")
    /\ UNCHANGED <<_model, _index, index_file, meta_file, builds, load_ret,
                   load_err, files_at_call, model_loads, index_loads>>
    /\ UNCHANGED <<metadata, requestVars>>

\* line 55: return _model, _index, _metadata
Return(t) ==
    /\ load_pc[t] = "55"
    /\ load_ret' = [load_ret EXCEPT ![t] = [model |-> _model, index |-> _index,
                                            metadata |-> _metadata]]
    /\ Goto(t, "returned")
    /\ UNCHANGED <<_model, _index, _metadata, index_file, meta_file, builds,
                   load_err, files_at_call, model_loads, index_loads,
                   metadata_loads>>
    /\ UNCHANGED <<metadata, requestVars>>

\* buildFaissIndex.py 148: a build writes the index file and stops before
\* it writes the metadata file
WriteIndexOnly ==
    /\ builds < MaxBuilds
    /\ ~exists(meta_file)
    /\ builds' = builds + 1
    /\ index_file' = builds + 1
    /\ UNCHANGED <<_model, _index, _metadata, meta_file, load_pc, load_ret,
                   load_err, files_at_call, model_loads, index_loads,
                   metadata_loads>>
    /\ UNCHANGED <<metadata, requestVars>>

\* a missing store is restored: both files of one complete build are put
\* in place together
RestoreStore ==
    /\ builds < MaxBuilds
    /\ ~exists(index_file) \/ ~exists(meta_file)
    /\ builds' = builds + 1
    /\ index_file' = builds + 1
    /\ meta_file' = builds + 1
    /\ UNCHANGED <<_model, _index, _metadata, load_pc, load_ret, load_err,
                   files_at_call, model_loads, index_loads, metadata_loads>>
    /\ UNCHANGED <<metadata, requestVars>>

NextLoad ==
    \/ \E t \in Threads :
          \/ Call(t)
          \/ CheckModel(t)
          \/ LoadModel(t)
          \/ CheckIndex(t)
          \/ ExistsIndex(t)
          \/ ReadIndex(t)
          \/ CheckMetadata(t)
          \/ ExistsMetadata(t)
          \/ ReadMetadata(t)
          \/ Return(t)
    \/ WriteIndexOnly
    \/ RestoreStore

SpecLoad == InitLoad /\ [][NextLoad]_vars

-----------------------------------------------------------------------------
(* The state machine: one request at a time through search_gita and then,
   when guidance is wanted, reason_over_verses *)

\* the stages of one search_gita call, in the order of its statements: the
\* store is fetched (line 205), the query enriched (208), encoded and
\* searched and the candidates built (211-235), adjusted (238), selected
\* and sorted (240-261); an exception ends the list where it is raised
StagesOfSearch_EnrichFirst(exception) ==
    IF exception = "FileNotFoundError" THEN <<"Received", "Enriched">>
    ELSE IF exception = "IndexError"
    THEN <<"Received", "Enriched", "Retrieved">>
    ELSE <<"Received", "Enriched", "Retrieved", "Adjusted", "Selected">>

StagesOfSearch(exception) ==
    <<"Received">>
    \o (IF exception = "FileNotFoundError" THEN << >>
        ELSE <<"Enriched", "Retrieved">>
             \o (IF exception = "IndexError" THEN << >>
                 ELSE <<"Adjusted", "Selected">>))

\* llm_reasoning.py 164-316: the low-confidence return comes before the
\* reranker (184) and the generator call (287)
StagesOfReason(calls) ==
    (IF calls = 0 THEN << >> ELSE <<"Reranked", "Dispatched">>)
    \o <<"Terminal">>

\* what os.getenv("API_KEY", "") gives: unset, or a key
ConfiguredKeys == {"", "secret"}

\* the X-API-Key headers a request may carry: none, empty, the key, another
Headers == { << >>, <<"">>, <<"secret">>, <<"wrong">> }

\* mutant: the test of line 54 is missing
verify_api_key_NoEmptyTest(key, configured) ==
    IF key # <<configured>> THEN 403 ELSE 200

\* api.py 53-67: the status verify_api_key ends with, 200 when it returns
verify_api_key(key, configured) ==
    IF key = << >> \/ key = <<"">>          \* line 54: not api_key
    THEN 401
    ELSE IF key # <<configured>>            \* line 61
    THEN 403
    ELSE 200

\* the service: the store was loaded at startup (api.py 215-217) from the
\* first build, with the key of its environment; or a process that loads
\* nothing at startup (gradio_app.py, app.py) and runs where the store was
\* never built
Init ==
    /\ RequestIdle
    /\ \/ metadata \in Corpora /\ StoreLoaded /\ API_KEY \in ConfiguredKeys
       \/ metadata = << >> /\ ProcessStart /\ API_KEY = ""

\* api.py 239-244: a request reaches the search endpoint of the running
\* service and its dependency verify_api_key runs first; an HTTPException
\* is the answer and the handler is not entered
VerifyApiKey ==
    /\ pc = "idle"
    /\ _model # None /\ _index # None /\ _metadata # None
    /\ \E key \in Headers :
         LET status == verify_api_key(key, API_KEY)
         IN  /\ api_key' = key
             /\ pc' = IF status = 200 THEN "admitted" ELSE "rejected"
             /\ response' = IF status = 200 THEN response
                            ELSE [status |-> status, verses |-> << >>,
                                  guidance |-> "None"]
    /\ UNCHANGED <<metadata, query, top_k, filter_practical, hits, heap, built,
                   filtered, results, raised, top_verses, generator_calls,
                   generator_error, guidance, enhanced_query,
                   include_guidance, stages, API_KEY>>
    /\ UNCHANGED loadVars

\* a caller runs search_gita(q, k, fp) to its return or to its exception
SearchGita ==
    /\ pc = "admitted"
    /\ _model # None /\ _index # None /\ _metadata # None   \* line 205
    /\ \E k \in 1..MaxTopK :
         \E hs \in IndexSearch(Len(metadata), k), q \in SampleQueries,
            fp \in BOOLEAN :
            LET r == search_gita(q, hs, metadata, fp)
            IN  /\ query' = q
                /\ enhanced_query' = enhance_query_contextual(q)  \* line 208
                /\ top_k' = k
                /\ filter_practical' = fp
                /\ hits' = hs
                /\ heap' = r.heap
                /\ built' = r.built
                /\ filtered' = r.filtered
                /\ results' = r.results
                /\ raised' = r.raised
                /\ stages' = StagesOfSearch(r.raised)
                /\ metadata' = CorpusAfterRequest(metadata, r.heap)
                /\ pc' = IF r.raised = "none" THEN "searched" ELSE "failed"
    /\ UNCHANGED <<top_verses, generator_calls, generator_error, guidance,
                   include_guidance, response, API_KEY, api_key>>
    /\ UNCHANGED loadVars

\* line 205 with the index file missing: load_resources loads the model if
\* it has not yet (lines 37-39) and raises at line 44; search_gita does
\* nothing else
SearchGitaUnavailable ==
    /\ pc = "idle"
    /\ _index = None /\ ~exists(index_file)
    /\ _model' = IF _model = None THEN Loaded(1) ELSE _model
    /\ model_loads' = IF _model = None THEN model_loads + 1 ELSE model_loads
    /\ \E q \in SampleQueries, k \in 1..MaxTopK, fp \in BOOLEAN :
          /\ query' = q
          /\ top_k' = k
          /\ filter_practical' = fp
    /\ raised' = "FileNotFoundError"
    /\ stages' = StagesOfSearch("FileNotFoundError")
    /\ pc' = "unavailable"
    /\ UNCHANGED <<metadata, hits, heap, built, filtered, results, top_verses,
                   generator_calls, generator_error, guidance, enhanced_query,
                   include_guidance, response, API_KEY, api_key>>
    /\ UNCHANGED <<_index, _metadata, index_file, meta_file, builds, load_pc,
                   load_ret, load_err, files_at_call, index_loads,
                   metadata_loads>>

\* the caller (api.py 256-284 with include_guidance, gradio_app.py 109-113)
\* found the list non-empty and hands it to reason_over_verses(query,
\* results); the endpoint then builds its answer
ReasonOverVerses ==
    /\ pc = "searched"
    /\ results # << >>
    /\ \E outcome \in GeneratorOutcomes :
         LET r == reason_over_verses(heap, query, results, outcome)
         IN  /\ heap' = r.heap
             /\ top_verses' = r.top_verses
             /\ generator_calls' = r.calls
             /\ generator_error' = r.error
             /\ guidance' = r.returned
             /\ response' = SearchResponse(query, heap, results, TRUE,
                                          r.returned)
             /\ stages' = stages \o StagesOfReason(r.calls)
             /\ metadata' = CorpusAfterRequest(metadata, r.heap)
    /\ include_guidance' = TRUE
    /\ pc' = "reasoned"
    /\ UNCHANGED <<query, enhanced_query, top_k, filter_practical, hits,
                   built, filtered, results, raised, API_KEY, api_key>>
    /\ UNCHANGED loadVars

\* api.py 259-284 with include_guidance false.  The 404 of lines 256-257
\* needs an empty list, which search_gita never returns here: a retrieval
\* on a non-empty corpus builds a candidate for every hit, and on an empty
\* corpus it raises
RespondWithoutGuidance ==
    /\ pc = "searched"
    /\ results # << >>
    /\ response' = SearchResponse(query, heap, results, FALSE, "None")
    /\ stages' = stages \o <<"Terminal">>
    /\ pc' = "responded"
    /\ UNCHANGED <<metadata, query, top_k, filter_practical, hits, heap, built,
                   filtered, results, raised, top_verses, generator_calls,
                   generator_error, guidance, enhanced_query,
                   include_guidance, API_KEY, api_key>>
    /\ UNCHANGED loadVars

\* the request is over; its objects are dropped and the next one may start
Finish ==
    /\ pc \in {"rejected", "searched", "failed", "unavailable", "reasoned",
              "responded"}
    /\ pc' = "idle"
    /\ query' = {}
    /\ top_k' = 0
    /\ filter_practical' = FALSE
    /\ hits' = << >>
    /\ heap' = << >>
    /\ built' = << >>
    /\ filtered' = << >>
    /\ results' = << >>
    /\ raised' = "none"
    /\ top_verses' = << >>
    /\ generator_calls' = 0
    /\ generator_error' = {}
    /\ guidance' = "not_requested"
    /\ enhanced_query' = "none"
    /\ include_guidance' = FALSE
    /\ response' = "none"
    /\ stages' = << >>
    /\ api_key' = << >>
    /\ UNCHANGED <<metadata, API_KEY>>
    /\ UNCHANGED loadVars

Next ==
    \/ VerifyApiKey
    \/ SearchGita
    \/ SearchGitaUnavailable
    \/ ReasonOverVerses
    \/ RespondWithoutGuidance
    \/ Finish

Spec == Init /\ [][Next]_vars

-----------------------------------------------------------------------------
(* Vocabulary of the properties *)

Returned == pc \in {"searched", "reasoned", "responded"}

Range(s) == { s[i] : i \in 1..Len(s) }

\* an ideal candidate: practical and without a context warning
Ideal(o) == heap[o].is_practical /\ heap[o].context_warning = "none"

\* the candidates the adjuster delivered that are ideal, as object ids
IdealCandidates == { o \in Range(filtered) : Ideal(o) }

VerseRef(r) == <<r.chapter, r.verse>>

\* the candidates reason_over_verses hands to the reranker
Eligible == { o \in Range(results) : heap[o].score > 30 * Hundredth }

\* the reranker ran in this request
Reranked == pc = "reasoned" /\ Eligible # {}

GriefQuery == AnyIn(GriefWords, lower(query))
ConfrontationQuery == AnyIn(ConfrontationQueryWords, lower(query))
DeathFocused(o) == AnyIn(DeathKeywords, lower(heap[o].english))
Battlefield(o) == AnyIn(BattlefieldKeywords, lower(heap[o].english))
Actionable(o) == AnyIn(UniversalKeywords, lower(heap[o].english))
Adjusted(o) ==
    IF "relevance_adjusted" \in DOMAIN heap[o]
    THEN heap[o].relevance_adjusted ELSE heap[o].score

\* the text matches none of the keyword sets of detect_verse_context
Unmatched(o) ==
    /\ ~DeathFocused(o) /\ ~Battlefield(o) /\ ~Actionable(o)
    /\ ~AnyIn(DevotionalKeywords, lower(heap[o].english))
    /\ ~AnyIn(CosmicKeywords, lower(heap[o].english))

\* the factors of the reranker as tenths
DeathFactor(o) ==
    IF DeathFocused(o) /\ GriefQuery THEN 12
    ELSE IF DeathFocused(o) THEN 7 ELSE 10
BattlefieldFactor(o) ==
    IF Battlefield(o) /\ ConfrontationQuery THEN 11
    ELSE IF Battlefield(o) THEN 8 ELSE 10
UniversalFactor(o) == IF heap[o].context.is_universal THEN 11 ELSE 10

\* the place of a stage in the order of the pipeline
StageOrder ==
    <<"Received", "Enriched", "Retrieved", "Adjusted", "Selected", "Reranked",
      "Dispatched", "Terminal">>
StageRank(name) == CHOOSE i \in 1..Len(StageOrder) : StageOrder[i] = name

\* the stages happened in pipeline order, none twice; a request that got
\* its candidates went through all five retrieval stages; the generator was
\* called at most once, as the Dispatched stage and after the reranker
StagesInOrder ==
    /\ \A i, j \in 1..Len(stages) :
           i < j => StageRank(stages[i]) < StageRank(stages[j])
    /\ Returned =>
           SubSeq(stages, 1, 5)
             = <<"Received", "Enriched", "Retrieved", "Adjusted", "Selected">>
    /\ generator_calls <= 1
    /\ (generator_calls = 1) <=> ("Dispatched" \in Range(stages))
    /\ ("Dispatched" \in Range(stages)) => ("Reranked" \in Range(stages))

\* the categories of the query, in the order of the focus phrases
FocusOrder ==
    << [words |-> EmotionalWords,    phrase |-> "managing fear and anxiety"],
       [words |-> DecisionWords,     phrase |-> "making clear decisions"],
       [words |-> CareerWords,       phrase |-> "finding purpose and direction"],
       [words |-> RelationshipWords, phrase |-> "handling interpersonal challenges"],
       [words |-> ExistentialWords,  phrase |-> "understanding life's meaning"] >>
Matching == SelectSeq(FocusOrder, LAMBDA c : AnyIn(c.words, lower(query)))

\* what stands after the raw query: nothing, or the opener and the phrases
\* of the matching categories with ", " between neighbours
IsFocusText(focus) ==
    IF Matching = << >> THEN focus = << >>
    ELSE /\ Len(focus) = 2 * Len(Matching)
         /\ focus[1] = ". Focus on: "
         /\ \A i \in 1..Len(Matching) : focus[2 * i] = Matching[i].phrase
         /\ \A i \in 1..(Len(Matching) - 1) : focus[2 * i + 1] = ", "

-----------------------------------------------------------------------------
(* C1: the list search_gita returns has between 0 and maxResults (5)
   entries, for every query, fetch width, filter flag and corpus. *)
C1_ResultBound ==
    Returned => (Len(results) >= 0 /\ Len(results) <= MaxResults)

\* more candidates than maxResults were retrieved and the list is full
C1_Witness ==
    /\ pc = "searched"
    /\ Len(built) > MaxResults
    /\ Len(results) = MaxResults

(* C2: no two entries of the returned list refer to the same verse
   (chapter, verse), also when the corpus has fewer entries than top_k. *)
C2_UniqueVerses ==
    Returned =>
        \A i, j \in 1..Len(results) :
            i # j => VerseRef(heap[results[i]]) # VerseRef(heap[results[j]])

(* C3: after the adjuster every candidate with a warning has
   relevance_adjusted strictly below its raw score and every candidate
   without one has relevance_adjusted equal to it, for every raw score. *)
C3_WarningLowersScore ==
    Returned =>
        \A o \in Range(filtered) :
            IF heap[o].context_warning # "none"
            THEN heap[o].relevance_adjusted < heap[o].score
            ELSE heap[o].relevance_adjusted = heap[o].score

(* C4: the adjuster applies exactly one branch per candidate, judged on the
   original query: battlefield text and a query that is neither
   social-concern nor confrontation gives warning battlefield and
   adjusted = raw x 0.75; otherwise death-focused text and a query that is
   not existential gives death_rebirth and adjusted = raw x 0.80; otherwise
   no warning and adjusted = raw.  Never two penalties. *)
C4_OneBranchPerCandidate ==
    Returned =>
        \A o \in Range(filtered) :
            LET v == heap[o]
                battlefield == AnyIn(BattlefieldWords, lower(v.english))
                death == AnyIn(DeathFocusedPhrases, lower(v.english))
                excused == \/ AnyIn(SocialConcernWords, lower(query))
                           \/ AnyIn(ConfrontationWords, lower(query))
                existential == AnyIn(ExistentialWords, lower(query))
            IN  IF battlefield /\ ~excused
                THEN /\ v.context_warning = "battlefield"
                     /\ v.relevance_adjusted * 100 = v.score * 75
                ELSE IF death /\ ~existential
                THEN /\ v.context_warning = "death_rebirth"
                     /\ v.relevance_adjusted * 100 = v.score * 80
                ELSE /\ v.context_warning = "none"
                     /\ v.relevance_adjusted = v.score

\* a candidate that is both battlefield and death-focused, raw 0.55, under a
\* query that excuses neither: penalised once, 0.4125
C4_Witness ==
    /\ pc = "searched"
    /\ \E o \in Range(filtered) :
         /\ AnyIn(BattlefieldWords, lower(heap[o].english))
         /\ AnyIn(DeathFocusedPhrases, lower(heap[o].english))
         /\ ~categorize_problem(query).existential
         /\ heap[o].score = 55 * Hundredth
         /\ heap[o].context_warning = "battlefield"
         /\ heap[o].relevance_adjusted = 4125 * (One \div 10000)

(* C5: with filter_practical and at least maxResults ideal candidates
   (practical, no warning), every returned entry is ideal and the returned
   entries are the ideal candidates with the highest adjusted scores. *)
C5_OnlyTopIdeal ==
    (Returned /\ filter_practical /\ Cardinality(IdealCandidates) >= MaxResults) =>
        /\ Len(results) = MaxResults
        /\ Range(results) \subseteq IdealCandidates
        /\ \A r \in Range(results), o \in IdealCandidates \ Range(results) :
               heap[r].relevance_adjusted >= heap[o].relevance_adjusted

\* more ideal candidates than places, and a non-ideal candidate that
\* outscores a returned entry stays out
C5_Witness ==
    /\ pc = "searched"
    /\ filter_practical
    /\ Cardinality(IdealCandidates) > MaxResults
    /\ \E o \in Range(filtered) \ IdealCandidates, r \in Range(results) :
           heap[o].relevance_adjusted > heap[r].relevance_adjusted

\* the case of C6: the filter is on, at least maxResults candidates were
\* retrieved and fewer than maxResults of them are ideal
FewIdeal ==
    /\ Returned
    /\ filter_practical
    /\ Len(filtered) >= MaxResults
    /\ Cardinality(IdealCandidates) < MaxResults

(* C6 as claimed: with filter_practical and fewer than 5 ideal among
   n >= 5 candidates, exactly 5 entries are returned and in the returned
   list every ideal entry precedes every non-ideal entry. *)
C6_IdealEntriesFirst ==
    FewIdeal =>
        /\ Len(results) = MaxResults
        /\ \A i, j \in 1..Len(results) :
               (Ideal(results[i]) /\ ~Ideal(results[j])) => i < j

(* C6 as amended: with filter_practical and fewer than 5 ideal among
   n >= 5 candidates, exactly 5 entries are returned: every ideal candidate
   and the highest-adjusted-score non-ideal candidates; the returned list is
   in adjusted-score order, so a non-ideal entry with a higher adjusted
   score stands before an ideal entry. *)
C6_IdealThenBestRest ==
    FewIdeal =>
        /\ Len(results) = MaxResults
        /\ Cardinality(Range(results)) = MaxResults
        /\ IdealCandidates \subseteq Range(results)
        /\ \A r \in Range(results) \ IdealCandidates,
              o \in Range(filtered) \ (IdealCandidates \cup Range(results)) :
               heap[r].relevance_adjusted >= heap[o].relevance_adjusted
        /\ \A i, j \in 1..Len(results) :
               heap[results[i]].relevance_adjusted
                   > heap[results[j]].relevance_adjusted => i < j

\* an ideal candidate is returned although a non-ideal candidate that was
\* left out outscores it, and a returned non-ideal entry stands before it
C6_Witness ==
    /\ FewIdeal
    /\ pc = "searched"
    /\ \E a \in IdealCandidates,
          o \in Range(filtered) \ (IdealCandidates \cup Range(results)) :
           heap[o].relevance_adjusted > heap[a].relevance_adjusted
    /\ \E i, j \in 1..Len(results) :
           i < j /\ ~Ideal(results[i]) /\ Ideal(results[j])

(* C7: the returned list is sorted by relevance_adjusted in non-increasing
   order, for both values of filter_practical. *)
C7_SortedByAdjusted ==
    Returned =>
        \A i \in 1..(Len(results) - 1) :
            heap[results[i]].relevance_adjusted
                >= heap[results[i + 1]].relevance_adjusted

\* the final sort moved an entry: the list assembled by the selection had
\* an ideal entry ahead of a non-ideal one with a higher adjusted score
C7_Witness ==
    /\ pc = "searched"
    /\ filter_practical
    /\ \E i \in 1..(Len(results) - 1) :
           /\ ~Ideal(results[i])
           /\ Ideal(results[i + 1])
           /\ heap[results[i]].relevance_adjusted
                  > heap[results[i + 1]].relevance_adjusted

RefBefore(a, b) ==
    a.chapter < b.chapter \/ (a.chapter = b.chapter /\ a.verse < b.verse)

(* C8 as claimed: of two returned entries with equal adjusted scores the
   one with the smaller (chapter, verse) comes first. *)
C8_TiesByVerseRef ==
    Returned =>
        \A i, j \in 1..Len(results) :
            (/\ i < j
             /\ heap[results[i]].relevance_adjusted
                    = heap[results[j]].relevance_adjusted
             /\ VerseRef(heap[results[i]]) # VerseRef(heap[results[j]]))
            => RefBefore(heap[results[i]], heap[results[j]])

\* the selection put the ideal candidates before the others
IdealPutFirst == filter_practical /\ Cardinality(IdealCandidates) < MaxResults

(* C8 as amended: of two returned entries with equal adjusted scores, an
   ideal entry comes before a non-ideal one when filter_practical is set
   and fewer than 5 candidates are ideal; in every other case the one whose
   hit the index returned earlier comes first.  (Object ids are given in
   hit order.) *)
C8_TiesByAssemblyOrder ==
    Returned =>
        \A i, j \in 1..Len(results) :
            (/\ i < j
             /\ heap[results[i]].relevance_adjusted
                    = heap[results[j]].relevance_adjusted)
            => IF IdealPutFirst
                  /\ Ideal(results[i]) # Ideal(results[j])
               THEN Ideal(results[i])
               ELSE results[i] < results[j]

\* two returned entries tie on the adjusted score with different raw
\* scores, and the one with the larger (chapter, verse) is first
C8_Witness ==
    /\ pc = "searched"
    /\ \E i, j \in 1..Len(results) :
           /\ i < j
           /\ heap[results[i]].relevance_adjusted
                  = heap[results[j]].relevance_adjusted
           /\ heap[results[i]].score # heap[results[j]].score
           /\ RefBefore(heap[results[j]], heap[results[i]])

(* C9: if every verse passed to reason_over_verses has raw score <= 0.30
   (0.30 itself does not pass), the call returns the insufficient-confidence
   message and the guidance generator is not called. *)
C9_LowConfidenceGate ==
    (pc = "reasoned"
     /\ \A v \in Range(results) : heap[v].score <= 30 * Hundredth)
    => (guidance = "low_confidence" /\ generator_calls = 0)

\* verses were passed, the best of them scores exactly 0.30, and the call
\* ended with the message
C9_Witness ==
    /\ pc = "reasoned"
    /\ results # << >>
    /\ \A v \in Range(results) : heap[v].score <= 30 * Hundredth
    /\ \E v \in Range(results) : heap[v].score = 30 * Hundredth
    /\ guidance = "low_confidence"
    /\ generator_calls = 0

(* C10: for every failure of the guidance generator call, whatever the
   error, reason_over_verses returns a templated fallback message: a text
   value, never None. *)
C10_FallbackOnEveryFailure ==
    (pc = "reasoned" /\ generator_error # {}) =>
        guidance = "api_key_fallback"

(* C11: a failure of the guidance generator never keeps a search request
   from returning its ranked verses: with include_guidance and a non-empty
   retrieval the endpoint completes with the verses list of the retrieval,
   whether the generator succeeds or fails. *)
C11_VersesDespiteGeneratorFailure ==
    (pc = "reasoned" /\ include_guidance) =>
        /\ response.status = 200
        /\ Len(response.verses) = Len(results)
        /\ \A i \in 1..Len(results) :
               /\ response.verses[i].id = VerseRef(heap[results[i]])
               /\ response.verses[i].score = heap[results[i]].score
               /\ response.verses[i].relevance_adjusted
                      = heap[results[i]].relevance_adjusted

(* C14: every hit whose index is negative or not below len(metadata) is
   dropped without an error and contributes no verse: search_gita raises
   nothing and builds one candidate per hit with 0 <= idx < len(metadata). *)
C14_OutOfRangeHitsDropped ==
    (pc \in {"searched", "failed"}) =>
        /\ raised = "none"
        /\ Len(built)
             = Cardinality({ i \in 1..Len(hits) :
                               hits[i].idx >= 0 /\ hits[i].idx < Len(metadata) })

(* C15: with an empty corpus search_gita returns the empty list and raises
   nothing, whatever filter_practical is. *)
C15_EmptyCorpusEmptyResult ==
    (pc \in {"searched", "failed"} /\ metadata = << >>) =>
        /\ pc = "searched"
        /\ raised = "none"
        /\ results = << >>

(* C16: rank_verses_by_suitability sets each verse's suitability_score to
   its adjusted score times 1.2 if death-focused under a grief query, else
   0.7 if death-focused; then times 1.1 if battlefield under a confrontation
   query, else 0.8 if battlefield; then times 1.1 if universal; each factor
   applies to the product so far. *)
C16_SuitabilityFactors ==
    Reranked =>
        \A o \in Eligible :
            /\ "suitability_score" \in DOMAIN heap[o]
            /\ heap[o].suitability_score
                 = Mul(Mul(Mul(Adjusted(o), DeathFactor(o), 10),
                           BattlefieldFactor(o), 10),
                       UniversalFactor(o), 10)

\* a death-focused battlefield verse under a grief and confrontation query:
\* all three factors act on one score
C16_Witness ==
    /\ Reranked
    /\ GriefQuery /\ ConfrontationQuery
    /\ \E o \in Eligible :
          /\ DeathFocused(o) /\ Battlefield(o)
          /\ heap[o].suitability_score
               = Mul(Mul(Mul(Adjusted(o), 12, 10), 11, 10), 11, 10)
          /\ heap[o].suitability_score > Mul(Adjusted(o), 12, 10)

(* C17 as stated: a candidate whose text matches none of the reranker's
   keyword sets (not battlefield, not death-focused, no actionable-language
   keyword) leaves rank_verses_by_suitability with suitability_score equal
   to its adjusted score. *)
C17_UnmatchedKeepsAdjusted ==
    Reranked =>
        \A o \in Eligible :
            Unmatched(o) => heap[o].suitability_score = Adjusted(o)

(* C17 amended: such a candidate leaves rank_verses_by_suitability flagged
   universal, with suitability_score equal to its adjusted score times 1.1. *)
C17_UnmatchedGetsUniversalFactor ==
    Reranked =>
        \A o \in Eligible :
            Unmatched(o) =>
                /\ heap[o].context.is_universal
                /\ heap[o].suitability_score = Mul(Adjusted(o), 11, 10)

C17_Witness ==
    /\ Reranked
    /\ \E o \in Eligible :
          /\ Unmatched(o)
          /\ heap[o].suitability_score = Mul(Adjusted(o), 11, 10)
          /\ heap[o].suitability_score > Adjusted(o)

(* C18: the verses forwarded to the guidance generator are at most 3, are
   exactly the highest-suitability candidates among the eligible ones, and
   stand in non-increasing suitability order, the maximum first. *)
C18_TopThreeBySuitability ==
    Reranked =>
        /\ Len(top_verses) <= 3
        /\ Len(top_verses) = Min(3, Cardinality(Eligible))
        /\ Range(top_verses) \subseteq Eligible
        /\ \A i, j \in 1..Len(top_verses) :
               /\ i # j => top_verses[i] # top_verses[j]
               /\ i < j => heap[top_verses[i]].suitability_score
                             >= heap[top_verses[j]].suitability_score
        /\ \A t \in Range(top_verses) : \A o \in Eligible \ Range(top_verses) :
               heap[t].suitability_score >= heap[o].suitability_score

\* more than 3 eligible candidates, and the reranker changed which three
\* lead: a strictly lower one is left out and the retrieval order is not kept
C18_Witness ==
    /\ Reranked
    /\ Cardinality(Eligible) > 3
    /\ Len(top_verses) = 3
    /\ top_verses # SubSeq(results, 1, 3)
    /\ \E o \in Eligible \ Range(top_verses) :
          heap[o].suitability_score < heap[top_verses[3]].suitability_score

(* C19: enhance_query_contextual returns 'Practical life guidance: ' and the
   raw query, followed, when a category matches, by '. Focus on: ' and one
   focus phrase per matching category in the order emotional, decision,
   career, relationship, existential, and by nothing when none matches; the
   endpoint's second call on the same query gives the same string. *)
C19_EnhancedQueryFormat ==
    (pc \in {"searched", "failed", "reasoned", "responded"}) =>
        /\ enhanced_query.base = "Practical life guidance: "
        /\ enhanced_query.query = query
        /\ IsFocusText(enhanced_query.focus)
        /\ (pc \in {"reasoned", "responded"} /\ response.status = 200) =>
               response.enhanced_query = enhanced_query

\* a query of two categories whose dict order and focus order differ
C19_Witness ==
    /\ pc = "responded"
    /\ response.status = 200
    /\ AnyIn(RelationshipWords, lower(query))
    /\ response.enhanced_query.focus
         = <<". Focus on: ", "finding purpose and direction", ", ",
             "handling interpersonal challenges">>

(* C12: under any interleaving of concurrent first calls to load_resources,
   the embedding model, the index and the metadata are each loaded once per
   process, never a second time. *)
C12_EachLoadedOnce ==
    /\ model_loads <= 1
    /\ index_loads <= 1
    /\ metadata_loads <= 1

(* C13: every call to load_resources that returns, under any interleaving
   and also after an earlier failed load, returns a model, an index and a
   metadata list none of which is None, the index and the metadata being of
   the same load of the store. *)
C13_NeverPartiallyLoaded ==
    \A t \in Threads :
        load_pc[t] = "returned" =>
            /\ load_ret[t].model # None
            /\ load_ret[t].index # None
            /\ load_ret[t].metadata # None
            /\ load_ret[t].index.build = load_ret[t].metadata.build

(* C20: while the index file or the metadata file is missing every call
   fails with the file-not-found error and returns nothing, no call succeeds,
   an earlier failure does not make a later call fail, and a call made once
   the files are restored loads the store and succeeds. *)
C20_FailsUntilRestored ==
    \A t \in Threads :
        /\ load_pc[t] = "raised" =>
               /\ load_err[t] \in {"FAISS index not found", "Metadata not found"}
               /\ load_ret[t] = NoReturn
               /\ ~files_at_call[t]
        /\ load_pc[t] = "returned" =>
               /\ index_file # 0 /\ meta_file # 0
               /\ load_err[t] = "none"
               /\ _index # None /\ _metadata # None

\* one call failed while the metadata file was missing, and a call begun
\* after the store was restored has returned
C20_Witness ==
    \E t, u \in Threads :
        /\ load_pc[t] = "raised"
        /\ load_err[t] = "Metadata not found"
        /\ load_pc[u] = "returned"
        /\ files_at_call[u]

(* C21: when filter_practical is false, search_gita returns exactly the
   first min(5, n) candidates of the adjusted-score-sorted list of the n
   retrieved candidates, whatever their practicality flag or warning. *)
C21_UnfilteredIsPrefix ==
    (Returned /\ ~filter_practical) =>
        /\ Len(filtered) = Len(built)
        /\ Len(results) = Min(5, Len(built))
        /\ \A i \in 1..Len(results) : results[i] = filtered[i]

\* more than 5 candidates, a returned entry that is not ideal and an ideal
\* candidate that is left out
C21_Witness ==
    /\ pc = "searched"
    /\ ~filter_practical
    /\ Len(built) > 5
    /\ \E r \in Range(results) : ~Ideal(r)
    /\ \E o \in IdealCandidates : o \notin Range(results)

(* C22: no stage mutates the candidates it receives: the dicts search_gita
   built for the hits, which are the input of filter_context_specific_verses
   and later of rank_verses_by_suitability, keep exactly the fields they were
   built with; the stages deliver their results on new values. *)
C22_StagesDoNotMutate ==
    Returned =>
        \A o \in Range(built) :
            DOMAIN heap[o]
              = {"score", "chapter", "verse", "english", "is_practical"}

(* C23 as stated: the stages of a query happen in the order Received,
   Enriched, Retrieved, Adjusted, Selected, then Reranked, Dispatched,
   Terminal, none twice, the generator being called at most once and only
   after reranking; a missing store stops the query at the Retrieved
   transition, after enrichment, and nothing later runs. *)
C23_StoreMissingAfterEnrichment ==
    /\ StagesInOrder
    /\ (raised = "FileNotFoundError") => stages = <<"Received", "Enriched">>

(* C23 amended: the same order; a missing store stops the query before
   enrichment, at the first statement of search_gita, and nothing later
   runs. *)
C23_StoreMissingBeforeEnrichment ==
    /\ StagesInOrder
    /\ (raised = "FileNotFoundError") =>
           /\ stages = <<"Received">>
           /\ enhanced_query = "none"
           /\ hits = << >> /\ results = << >>
           /\ generator_calls = 0

C23_Witness ==
    /\ pc = "unavailable"
    /\ raised = "FileNotFoundError"
    /\ stages = <<"Received">>
    /\ _model # None /\ _index = None

(* C24: filter_context_specific_verses returns exactly the candidates it
   was given, none dropped or duplicated, ordered by adjusted score
   non-increasing, two candidates of equal adjusted score keeping the order
   they had in the input. *)
C24_FilterKeepsAllStablySorted ==
    Returned =>
        /\ Len(filtered) = Len(built)
        /\ Range(filtered) = Range(built)
        /\ \A i, j \in 1..Len(filtered) :
               i < j =>
                  /\ filtered[i] # filtered[j]
                  /\ heap[filtered[i]].relevance_adjusted
                       >= heap[filtered[j]].relevance_adjusted
                  /\ (heap[filtered[i]].relevance_adjusted
                        = heap[filtered[j]].relevance_adjusted)
                     => \E a, b \in 1..Len(built) :
                           a < b /\ built[a] = filtered[i]
                                 /\ built[b] = filtered[j]

\* the adjuster reordered the list, and two candidates of different raw
\* score ended with the same adjusted score
C24_Witness ==
    /\ pc = "searched"
    /\ filtered # built
    /\ \E i \in 1..(Len(filtered) - 1) :
          /\ heap[filtered[i]].relevance_adjusted
               = heap[filtered[i + 1]].relevance_adjusted
          /\ heap[filtered[i]].score > heap[filtered[i + 1]].score
          /\ heap[filtered[i]].context_warning # "none"

(* C25: a query about mortality or confrontation is never penalised by the
   adjuster: under a query the reranker classifies as grief no candidate
   gets the death_rebirth warning and no death-focused candidate a reduced
   adjusted score; under a query classified as confrontation or as social
   concern no candidate gets the battlefield warning. *)
C25_GriefAndConfrontationUnpenalised ==
    Returned =>
        \A o \in Range(filtered) :
            /\ GriefQuery =>
                  /\ heap[o].context_warning # "death_rebirth"
                  /\ DeathFocused(o) /\ ~Battlefield(o) =>
                         heap[o].relevance_adjusted = heap[o].score
            /\ (ConfrontationQuery
                \/ AnyIn(ConfrontationWords, lower(query))
                \/ AnyIn(SocialConcernWords, lower(query))) =>
                  heap[o].context_warning # "battlefield"

(* C26: once the store is loaded no sequence of search_gita and
   reason_over_verses calls changes the corpus: the metadata records and the
   index stay as loaded, no score, warning, suitability or context field is
   written onto a record, and the candidates of a query are new objects,
   none carried over from an earlier query. *)
C26_CorpusNeverMutated ==
    /\ metadata = SubSeq(SampleCorpus, 1, Len(metadata))
    /\ \A i \in 1..Len(metadata) :
           DOMAIN metadata[i] = {"chapter", "verse", "english", "is_practical"}
    /\ (pc # "unavailable" /\ _index # None) =>
           (_index = Loaded(1) /\ _metadata = Loaded(1))
    /\ pc = "idle" => heap = << >>
    /\ pc = "searched" =>
           /\ DOMAIN heap = 1..Len(built)
           /\ \A o \in DOMAIN heap :
                  /\ "suitability_score" \notin DOMAIN heap[o]
                  /\ "context" \notin DOMAIN heap[o]

\* the stages wrote a warning, a lowered score and a suitability score on
\* the candidate made from a record, and the record does not show them
C26_Witness ==
    /\ pc = "reasoned"
    /\ \E o \in Range(top_verses), i \in 1..Len(metadata) :
          /\ VerseRef(heap[o]) = VerseRef(metadata[i])
          /\ heap[o].context_warning # "none"
          /\ heap[o].relevance_adjusted < heap[o].score
          /\ "suitability_score" \in DOMAIN heap[o]
          /\ "context_warning" \notin DOMAIN metadata[i]

\* the hits whose label is below the corpus size, in the order the index
\* returned them: candidate o is made from the o-th of them
Forwarded == SelectSeq(hits, LAMBDA hit : hit.idx < Len(metadata))

\* the fields a candidate has when it is built, and the fields the stages add
BuiltFields == {"score", "chapter", "verse", "english", "is_practical"}
StageFields ==
    {"relevance_adjusted", "context_warning", "suitability_score", "context"}

(* C27: the raw 'score' of a candidate is the score the index returned for
   it and is not changed by any stage; the stages write only
   relevance_adjusted, context_warning, suitability_score and context; every
   entry of the final result list, of the response and of the verses
   forwarded to the generator carries the index's score. *)
C27_RawScoreKept ==
    Returned =>
        /\ DOMAIN heap = 1..Len(Forwarded)
        /\ \A o \in DOMAIN heap :
               /\ heap[o].score = Forwarded[o].score
               /\ BuiltFields \subseteq DOMAIN heap[o]
               /\ DOMAIN heap[o] \subseteq BuiltFields \cup StageFields
        /\ (pc # "searched" /\ response.status = 200) =>
               /\ Len(response.verses) = Len(results)
               /\ \A i \in 1..Len(results) :
                      response.verses[i].score = Forwarded[results[i]].score

\* a penalised verse was reranked and forwarded to the generator: adjusted
\* and suitability scores differ from the raw score, which is the hit's
C27_Witness ==
    /\ pc = "reasoned"
    /\ generator_calls = 1
    /\ \E o \in Range(top_verses) :
          /\ heap[o].relevance_adjusted < heap[o].score
          /\ heap[o].suitability_score # heap[o].score
          /\ heap[o].score = Forwarded[o].score

\* the candidate went through the reranker
Ranked(o) == "suitability_score" \in DOMAIN heap[o]

(* C28: no verse whose raw score is <= 0.30 is forwarded to the guidance
   generator, even when other verses of the same query exceed 0.30; the gate
   tests the raw score, so a verse with raw score > 0.30 is still eligible
   (it is reranked, and forwarded when it is among the first three by
   suitability) when its adjusted score is <= 0.30. *)
C28_GateOnRawScore ==
    pc = "reasoned" =>
        /\ \A o \in Range(top_verses) : heap[o].score > 30 * Hundredth
        /\ \A o \in Range(results) :
               heap[o].score > 30 * Hundredth =>
                   /\ generator_calls = 1
                   /\ Ranked(o)
                   /\ Cardinality(Eligible) <= 3 => o \in Range(top_verses)
        /\ \A o \in Range(results) :
               heap[o].score <= 30 * Hundredth => ~Ranked(o)

\* one verse of raw score <= 0.30 is held back while a verse of raw score
\* > 0.30 and adjusted score <= 0.30 is forwarded
C28_Witness ==
    /\ pc = "reasoned"
    /\ \E o \in Range(results) :
          heap[o].score <= 30 * Hundredth /\ o \notin Range(top_verses)
    /\ \E o \in Range(top_verses) :
          /\ heap[o].score > 30 * Hundredth
          /\ heap[o].relevance_adjusted <= 30 * Hundredth

(* C29: in a search response that carries guidance, selected_verse is the
   verse the reranker put first by suitability, the one presented to the
   generator as the highest match. *)
C29_SelectedVerseIsTopSuitability ==
    (pc = "reasoned" /\ generator_calls = 1 /\ response.status = 200) =>
        VerseRef(response.guidance.selected_verse)
            = VerseRef(heap[top_verses[1]])

\* the pipeline has not run for this request
Untouched ==
    /\ stages = << >>
    /\ hits = << >> /\ heap = << >> /\ results = << >>
    /\ generator_calls = 0

(* C30: a search request is admitted only when its X-API-Key header equals
   the configured API_KEY; without the header, or with an empty one, the
   answer is 401, with a different key 403, and in both cases the pipeline
   does not run; when no API_KEY is configured (empty string) no request is
   admitted. *)
C30_AdmittedOnlyWithConfiguredKey ==
    /\ pc \in {"admitted", "searched", "failed", "reasoned", "responded"} =>
           (api_key = <<API_KEY>> /\ API_KEY # "")
    /\ pc = "rejected" =>
           /\ Untouched
           /\ api_key \in {<< >>, <<"">>} => response.status = 401
           /\ api_key \notin {<< >>, <<"">>} =>
                  (response.status = 403 /\ api_key # <<API_KEY>>)
    /\ (api_key # << >> /\ api_key # <<API_KEY>>) => pc = "rejected"
    /\ API_KEY = "" =>
           pc \notin {"admitted", "searched", "failed", "reasoned", "responded"}

\* no key is configured and the request carries the empty key: the header
\* equals API_KEY and the request is refused with 401
C30_Witness ==
    /\ pc = "rejected"
    /\ API_KEY = ""
    /\ api_key = <<"">>
    /\ response.status = 401
    /\ Untouched

====
